---- MODULE Spec2Model ----
(***************************************************************************)
(* oneapi: a manifest of entities is compiled into per-entity validation   *)
(* rules, a SQLite schema and a generic CRUD repository served over a      *)
(* JSON:API style HTTP layer.                                              *)
(*                                                                         *)
(* Values of a record (Go `any`) are modelled as tagged scalars.  Text is  *)
(* a sequence of one-character strings so that strings.TrimSpace,          *)
(* strconv.ParseInt, strconv.ParseFloat and fmt.Sprintf("%d") are computed *)
(* rather than assumed.  Floating point values are kept in tenths.         *)
(***************************************************************************)
EXTENDS Integers, Sequences, FiniteSets, TLC

VARIABLES doc, phase, manifest, tables, cl, ret

vars == <<doc, phase, manifest, tables, cl, ret>>

(***************************************************************************)
(* Bounds of the model.                                                    *)
(***************************************************************************)
\* largest number of rows ever inserted into one table
MaxId == 2
\* largest number of keys in the patch of an Update that runs concurrently
MaxPatchKeys == 1

(***************************************************************************)
(* Dynamically typed values (map[string]any entries).                      *)
(***************************************************************************)
NULL == [k |-> "null", s |-> <<>>, n |-> 0]
TextV(s) == [k |-> "text", s |-> s, n |-> 0]
IntV(n) == [k |-> "int", s |-> <<>>, n |-> n]
\* a float64, in tenths: RealV(15) is 1.5
RealV(t) == [k |-> "real", s |-> <<>>, n |-> t]
BoolV(b) == [k |-> "bool", s |-> <<>>, n |-> IF b THEN 1 ELSE 0]

EmptyMap == [x \in {} |-> NULL]

\* maps.Copy(dst, src): src overlays dst
MapsCopy(dst, src) ==
  [x \in (DOMAIN dst) \cup (DOMAIN src) |-> IF x \in DOMAIN src THEN src[x] ELSE dst[x]]

(***************************************************************************)
(* Text helpers: strings.TrimSpace, strconv.ParseInt, strconv.ParseFloat,  *)
(* fmt.Sprintf("%d").                                                      *)
(***************************************************************************)
DigitChars == <<"0", "1", "2", "3", "4", "5", "6", "7", "8", "9">>
IsDigit(c) == \E i \in 1..10 : DigitChars[i] = c
DigitVal(c) == (CHOOSE i \in 1..10 : DigitChars[i] = c) - 1
IsSpace(c) == c \in {" ", "\t", "\n", "\r"}

RECURSIVE TrimLeft(_)
TrimLeft(s) == IF s # <<>> /\ IsSpace(Head(s)) THEN TrimLeft(Tail(s)) ELSE s

RECURSIVE TrimRight(_)
TrimRight(s) ==
  IF s # <<>> /\ IsSpace(s[Len(s)]) THEN TrimRight(SubSeq(s, 1, Len(s) - 1)) ELSE s

TrimSpace(s) == TrimRight(TrimLeft(s))

AllDigits(s) == s # <<>> /\ \A i \in 1..Len(s) : IsDigit(s[i])

RECURSIVE DigitsValue(_)
DigitsValue(s) ==
  IF s = <<>> THEN 0 ELSE 10 * DigitsValue(SubSeq(s, 1, Len(s) - 1)) + DigitVal(s[Len(s)])

HasSign(s) == s # <<>> /\ Head(s) \in {"+", "-"}
Unsigned(s) == IF HasSign(s) THEN Tail(s) ELSE s
SignOf(s) == IF s # <<>> /\ Head(s) = "-" THEN -1 ELSE 1

\* strconv.ParseInt(s, 10, 64): optional sign, then one or more digits
ParseInt(s) ==
  IF AllDigits(Unsigned(s))
    THEN [ok |-> TRUE, n |-> SignOf(s) * DigitsValue(Unsigned(s))]
    ELSE [ok |-> FALSE, n |-> 0]

DotPos(s) == IF \E i \in 1..Len(s) : s[i] = "." THEN CHOOSE i \in 1..Len(s) : s[i] = "." ELSE 0

IntPart(u) == IF DotPos(u) = 0 THEN u ELSE SubSeq(u, 1, DotPos(u) - 1)
FracPart(u) == IF DotPos(u) = 0 THEN <<>> ELSE SubSeq(u, DotPos(u) + 1, Len(u))

\* the float, in tenths, of sign, integer digits and fraction digits
FloatOf(sign, ip, fp) ==
  IF /\ (ip = <<>> \/ AllDigits(ip))
     /\ (fp = <<>> \/ (AllDigits(fp) /\ Len(fp) = 1))
     /\ (ip # <<>> \/ fp # <<>>)
    THEN [ok |-> TRUE, n |-> sign * (10 * DigitsValue(ip) + DigitsValue(fp))]
    ELSE [ok |-> FALSE, n |-> 0]

\* strconv.ParseFloat(s, 64) on decimal text with at most one fractional
\* digit: optional sign, digits, optional "." and digit; result in tenths
ParseFloat(s) == FloatOf(SignOf(s), IntPart(Unsigned(s)), FracPart(Unsigned(s)))

RECURSIVE FormatNat(_)
FormatNat(n) ==
  IF n < 10 THEN <<DigitChars[n + 1]>>
  ELSE Append(FormatNat(n \div 10), DigitChars[(n % 10) + 1])

\* fmt.Sprintf("%d", n)
FormatInt(n) == IF n < 0 THEN <<"-">> \o FormatNat(0 - n) ELSE FormatNat(n)

(***************************************************************************)
(* Texts used by the manifest and by the callers.                          *)
(***************************************************************************)
TBlank == <<" ">>
TX == <<"x">>
TOpen == <<"o", "p", "e", "n">>
TDone == <<"d", "o", "n", "e">>
TSeven == <<"7">>
TOneFive == <<"1", ".", "5">>

(***************************************************************************)
(* The manifest's entities (spec.EntityDef / spec.FieldDef).               *)
(***************************************************************************)
FieldDef(type, required, variants) ==
  [Type |-> type, Required |-> required, Variants |-> variants]

EntityDefs ==
  [task    |-> [title  |-> FieldDef("string", TRUE, <<>>),
                status |-> FieldDef("enum", TRUE, <<TOpen, TDone>>)],
   counter |-> [count  |-> FieldDef("int", FALSE, <<>>)],
   gauge   |-> [score  |-> FieldDef("double", FALSE, <<>>)],
   toggle  |-> [on     |-> FieldDef("bool", TRUE, <<>>)]]

EntityNames == DOMAIN EntityDefs

(***************************************************************************)
(* storage.NewEntity: the field table and the validator chains.            *)
(***************************************************************************)
NoErr == [kind |-> "nil", field |-> ""]
Err(kind, name) == [kind |-> kind, field |-> name]

RequiredValidator(name, value) ==
  IF value = NULL THEN Err("required", name)
  ELSE IF value.k = "text" /\ TrimSpace(value.s) = <<>> THEN Err("required", name)
  ELSE NoErr

StringValidator(name, value) ==
  IF value = NULL THEN NoErr
  ELSE IF value.k # "text" THEN Err("must be a string", name)
  ELSE NoErr

IntValidator(name, value) ==
  IF value = NULL THEN NoErr
  ELSE IF value.k = "int" THEN NoErr
  ELSE IF value.k = "text"
    THEN (IF ParseInt(value.s).ok THEN NoErr ELSE Err("must be a number", name))
  ELSE Err("must be an integer", name)

DoubleValidator(name, value) ==
  IF value = NULL THEN NoErr
  ELSE IF value.k = "real" THEN NoErr
  ELSE IF value.k = "text"
    THEN (IF ParseFloat(value.s).ok THEN NoErr ELSE Err("must be a number", name))
  ELSE Err("must be a number", name)

\* slices.Contains(variants, strValue)
Contains(variants, s) == \E i \in 1..Len(variants) : variants[i] = s

EnumValidator(name, variants, value) ==
  IF value = NULL THEN NoErr
  ELSE IF value.k # "text" THEN Err("must be a string for enum type", name)
  ELSE IF ~Contains(variants, value.s) THEN Err("must be one of", name)
  ELSE NoErr

\* a FieldValidator closure: its kind and the variables it captured
Validator(kind, name, variants) == [kind |-> kind, name |-> name, variants |-> variants]

RunValidator(v, value) ==
  CASE v.kind = "required" -> RequiredValidator(v.name, value)
    [] v.kind = "string"   -> StringValidator(v.name, value)
    [] v.kind = "int"      -> IntValidator(v.name, value)
    [] v.kind = "double"   -> DoubleValidator(v.name, value)
    [] v.kind = "enum"     -> EnumValidator(v.name, v.variants, value)

\* the validations slice NewEntity builds for one field
FieldValidations(name, field) ==
  (IF field.Required THEN <<Validator("required", name, <<>>)>> ELSE <<>>)
  \o (IF field.Type \in {"string", "int", "double"}
        THEN <<Validator(field.Type, name, <<>>)>>
      ELSE IF field.Type = "enum"
        THEN <<Validator("enum", name, field.Variants)>>
      ELSE <<>>)

NewEntity(name, def) ==
  [Name |-> name,
   Fields |-> def,
   Validations |-> [f \in DOMAIN def |-> FieldValidations(f, def[f])]]

\* Entity.GetFieldType: the SQL column type of a field
GetFieldType(e, fieldName) ==
  IF fieldName \notin DOMAIN e.Fields THEN ""
  ELSE CASE e.Fields[fieldName].Type \in {"string", "enum"} -> "TEXT"
         [] e.Fields[fieldName].Type = "int" -> "INTEGER"
         [] e.Fields[fieldName].Type = "double" -> "REAL"
         [] e.Fields[fieldName].Type = "bool" -> "BOOLEAN"
         [] OTHER -> "TEXT"

\* Validate as it would be if it stopped at the unknown keys
ValidateShortCircuit(e, data) ==
  LET unknown == { Err("unknown field", fieldName) :
                     fieldName \in (DOMAIN data) \ (DOMAIN e.Fields) }
      failing == UNION { { RunValidator(e.Validations[fieldName][i],
                                        IF fieldName \in DOMAIN data THEN data[fieldName]
                                        ELSE NULL) :
                             i \in 1..Len(e.Validations[fieldName]) } :
                         fieldName \in DOMAIN e.Validations } \ {NoErr}
  IN IF unknown # {} THEN unknown ELSE failing

\* Entity.Validate: every unknown key and every failing validator reports
\* (the order of the returned slice follows Go's map iteration and is not
\* modelled: the result is the set of errors)
Validate(e, data) ==
  { Err("unknown field", fieldName) : fieldName \in (DOMAIN data) \ (DOMAIN e.Fields) }
  \cup
  (UNION { { RunValidator(e.Validations[fieldName][i],
                          IF fieldName \in DOMAIN data THEN data[fieldName] ELSE NULL) :
               i \in 1..Len(e.Validations[fieldName]) } :
           fieldName \in DOMAIN e.Validations } \ {NoErr})

\* EntityRegistry.RegisterEntity, as main calls it for a manifest entity
RegisterEntity(name) == NewEntity(name, EntityDefs[name])

(***************************************************************************)
(* The storage engine: one SQLite table per entity.  A table is its        *)
(* columns (CreateSchema), its rows by id and the AUTOINCREMENT sequence.  *)
(* Values are converted by the affinity of the declared column type when   *)
(* stored and by the driver when scanned.                                  *)
(***************************************************************************)
Abs(x) == IF x < 0 THEN 0 - x ELSE x

FormatReal(t) ==
  (IF t < 0 THEN <<"-">> ELSE <<>>)
  \o FormatNat(Abs(t) \div 10) \o <<".">> \o FormatNat(Abs(t) % 10)

\* the number a well-formed numeric text f converts to; other text stays v
NumberOf(v, f) ==
  IF ~f.ok THEN v
  ELSE IF f.n % 10 = 0 THEN IntV(f.n \div 10) ELSE RealV(f.n)

\* NUMERIC / INTEGER affinity: numeric text becomes a number, integral
\* reals become integers, a bool is bound as 0 or 1
NumericAffinity(v) ==
  CASE v.k = "text" -> NumberOf(v, ParseFloat(TrimSpace(v.s)))
    [] v.k = "real" -> IF v.n % 10 = 0 THEN IntV(v.n \div 10) ELSE v
    [] v.k = "bool" -> IntV(v.n)
    [] OTHER -> v

ForceReal(w) == IF w.k = "int" THEN RealV(10 * w.n) ELSE w

\* REAL affinity: as NUMERIC, with integers forced to floating point
RealAffinity(v) == ForceReal(NumericAffinity(v))

\* TEXT affinity: numbers are stored as their text
TextAffinity(v) ==
  CASE v.k = "int" -> TextV(FormatInt(v.n))
    [] v.k = "bool" -> TextV(FormatInt(v.n))
    [] v.k = "real" -> TextV(FormatReal(v.n))
    [] OTHER -> v

\* the value a column of the declared type holds after a bind of v
StoreValue(sqlType, v) ==
  CASE sqlType = "TEXT" -> TextAffinity(v)
    [] sqlType = "REAL" -> RealAffinity(v)
    [] OTHER -> NumericAffinity(v)

\* the Go value rows.Scan yields for a stored value: integers of a BOOLEAN
\* column come back as bool, text comes back as string
ReadValue(sqlType, v) ==
  IF sqlType = "BOOLEAN" /\ v.k = "int" THEN BoolV(v.n > 0) ELSE v

\* SQLiteRepository.CreateSchema: the columns besides the id primary key
CreateSchema(e) ==
  [fieldName \in {f \in DOMAIN e.Fields : GetFieldType(e, f) # ""} |->
     [Type |-> GetFieldType(e, fieldName), NotNull |-> e.Fields[fieldName].Required]]

NewTable(e) == [schema |-> CreateSchema(e), rows |-> [i \in {} |-> EmptyMap], seq |-> 0]

NotNullOk(t, row) == \A c \in DOMAIN t.schema : t.schema[c].NotNull => row[c] # NULL

\* a row of NULLs, the columns an INSERT does not name
NullRow(t) == [c \in DOMAIN t.schema |-> NULL]

\* the row old with the bound values stored in the columns they name
BoundRow(t, values, old) ==
  [c \in DOMAIN t.schema |->
     IF c \in DOMAIN values THEN StoreValue(t.schema[c].Type, values[c]) ELSE old[c]]

InsertRow(t, values, row, id) ==
  IF DOMAIN values = {} THEN [err |-> "syntax error", t |-> t, id |-> 0]
  ELSE IF ~NotNullOk(t, row) THEN [err |-> "constraint failed", t |-> t, id |-> 0]
  ELSE [err |-> "ok",
        t |-> [t EXCEPT !.rows = [i \in DOMAIN t.rows \cup {id} |->
                                    IF i = id THEN row ELSE t.rows[i]],
                        !.seq = id],
        id |-> id]

\* the INSERT statement as it would be for an id column declared without
\* AUTOINCREMENT: the next id is one more than the largest id in the table
SqlInsertReusesIds(t, values) ==
  InsertRow(t, values, BoundRow(t, values, NullRow(t)),
            1 + Cardinality({i \in 1..t.seq : \E j \in DOMAIN t.rows : i <= j}))

\* INSERT INTO t (cols) VALUES (?...): an empty column list is a syntax
\* error; AUTOINCREMENT gives the row the next id of the sequence
SqlInsert(t, values) == InsertRow(t, values, BoundRow(t, values, NullRow(t)), t.seq + 1)

UpdateRow(t, id, row) ==
  IF ~NotNullOk(t, row) THEN [err |-> "constraint failed", t |-> t]
  ELSE [err |-> "ok", t |-> [t EXCEPT !.rows[id] = row]]

\* the UPDATE statement as it would be if matching no row were an error
SqlUpdateMissingRowFails(t, values, id) ==
  IF DOMAIN values = {} THEN [err |-> "syntax error", t |-> t]
  ELSE IF id \notin DOMAIN t.rows THEN [err |-> "not found", t |-> t]
  ELSE UpdateRow(t, id, BoundRow(t, values, t.rows[id]))

\* UPDATE t SET c = ?... WHERE id = ?: an empty SET list is a syntax error,
\* no matching row is not an error
SqlUpdate(t, values, id) ==
  IF DOMAIN values = {} THEN [err |-> "syntax error", t |-> t]
  ELSE IF id \notin DOMAIN t.rows THEN [err |-> "ok", t |-> t]
  ELSE UpdateRow(t, id, BoundRow(t, values, t.rows[id]))

\* the DELETE statement as it would be without its WHERE clause
SqlDeleteAll(t, id) == [t EXCEPT !.rows = [i \in {} |-> EmptyMap]]

\* DELETE FROM t WHERE id = ?
SqlDelete(t, id) == [t EXCEPT !.rows = [i \in DOMAIN t.rows \ {id} |-> t.rows[i]]]

\* the map rows.Scan fills for one row: every column, id included
ScanRow(t, id) ==
  [c \in {"id"} \cup DOMAIN t.schema |->
     IF c = "id" THEN IntV(id) ELSE ReadValue(t.schema[c].Type, t.rows[id][c])]

Least(S) == CHOOSE x \in S : \A y \in S : x <= y

RECURSIVE SortedIds(_)
SortedIds(S) == IF S = {} THEN <<>> ELSE <<Least(S)>> \o SortedIds(S \ {Least(S)})

\* the rows of ids after the first off, at most limit of them
PageOf(t, ids, off, limit) ==
  [i \in 1..(IF Len(ids) - off < limit THEN Len(ids) - off ELSE limit) |->
     ScanRow(t, ids[off + i])]

\* SELECT * FROM t LIMIT ? OFFSET ?: rows in rowid order; a negative
\* OFFSET counts as 0
SqlSelectPage(t, limit, offset) ==
  PageOf(t, SortedIds(DOMAIN t.rows), IF offset < 0 THEN 0 ELSE offset, limit)

(***************************************************************************)
(* storage.SQLiteRepository: the five operations on one entity's table.    *)
(***************************************************************************)
\* SQLiteRepository.FindByID
FindByID(t, id) ==
  IF id \in DOMAIN t.rows THEN [err |-> "ok", rec |-> ScanRow(t, id)]
  ELSE [err |-> "not found", rec |-> EmptyMap]

\* Create, lines 192-216: the INSERT statement for the declared keys of data
CreateExec(e, t, data) ==
  SqlInsert(t, [f \in (DOMAIN data) \cap (DOMAIN e.Fields) |-> data[f]])

\* Create, lines 186-189 and 211-216: what is returned for the validation
\* errors errs and the outcome ins of the INSERT
CreateResult(t, errs, ins) ==
  IF errs # {} THEN [err |-> "validation failed", errs |-> errs, t |-> t, id |-> 0]
  ELSE [err |-> ins.err, errs |-> {}, t |-> ins.t, id |-> ins.id]

\* Create as it would be if the INSERT ran before the validation result is
\* looked at
CreateInsertsFirst(e, t, data) ==
  CreateResult(CreateExec(e, t, data).t, Validate(e, data), CreateExec(e, t, data))

\* SQLiteRepository.Create: validate, then insert the declared keys of data
Create(e, t, data) == CreateResult(t, Validate(e, data), CreateExec(e, t, data))

\* the merged view as it would be without maps.Copy(merged, data)
MergedWithoutPatch(existing, data) ==
  [k \in (DOMAIN existing) \ {"id"} |-> existing[k]]

\* Update, lines 233-240: the existing record minus id, overlaid with data
Merged(existing, data) ==
  MapsCopy([k \in (DOMAIN existing) \ {"id"} |-> existing[k]], data)

\* Update, lines 248-270: the UPDATE statement for the declared keys of data
UpdateExec(e, t, id, data) ==
  SqlUpdate(t, [f \in (DOMAIN data) \cap (DOMAIN e.Fields) |-> data[f]], id)

\* Update's returns: the existence check, the second read, the validation
\* errors of the merged view, the outcome of the UPDATE
UpdateResult(t, check, existing, errs, exec) ==
  IF check.err # "ok" THEN [err |-> check.err, errs |-> {}, t |-> t]
  ELSE IF existing.err # "ok" THEN [err |-> existing.err, errs |-> {}, t |-> t]
  ELSE IF errs # {} THEN [err |-> "validation failed", errs |-> errs, t |-> t]
  ELSE [err |-> exec.err, errs |-> {}, t |-> exec.t]

\* SQLiteRepository.Update, run to completion
Update(e, t, id, data) ==
  UpdateResult(t, FindByID(t, id), FindByID(t, id),
               Validate(e, Merged(FindByID(t, id).rec, data)),
               UpdateExec(e, t, id, data))

\* Delete as it would be without its existence check
DeleteNoCheck(t, id) == [err |-> "ok", t |-> SqlDelete(t, id)]

\* SQLiteRepository.Delete, run to completion
Delete(t, id) ==
  IF FindByID(t, id).err # "ok" THEN [err |-> FindByID(t, id).err, t |-> t]
  ELSE [err |-> "ok", t |-> SqlDelete(t, id)]

\* the page pg of size ps and the COUNT(*) of the table
ListPage(t, pg, ps) ==
  [result |-> SqlSelectPage(t, ps, (pg - 1) * ps), total |-> Cardinality(DOMAIN t.rows)]

\* SQLiteRepository.List: clamp, count, select the page
List(t, page, pageSize) ==
  ListPage(t, IF page < 1 THEN 1 ELSE page, IF pageSize < 1 THEN 10 ELSE pageSize)

(***************************************************************************)
(* server.JSONAPIHandler: resource envelopes and the list response.        *)
(***************************************************************************)
formatJSONapiResource(data) ==
  [id |-> FormatInt(IF "id" \in DOMAIN data /\ data["id"].k = "int" THEN data["id"].n ELSE 0),
   type |-> "entity",
   attributes |-> [k \in (DOMAIN data) \ {"id"} |-> data[k]]]

formatJSONapiData(data) == [i \in 1..Len(data) |-> formatJSONapiResource(data[i])]

\* c.Query(key, defaultValue): an absent or empty parameter is the default
Query(value, defaultValue) == IF value = <<>> THEN defaultValue ELSE value

\* strconv.Atoi with its error dropped: 0 when the text is not a number
Atoi(s) == ParseInt(s).n

\* Go's integer division truncates toward zero
GoDiv(a, b) ==
  IF (a < 0) = (b < 0) THEN Abs(a) \div Abs(b) ELSE 0 - (Abs(a) \div Abs(b))

NoMeta == [total |-> 0, page |-> 0, page_size |-> 0, total_pages |-> 0]

\* JSONAPIHandler.List, lines 31-44: the response for the repository's
\* result r; the meta block is computed from the handler's own page and
\* pageSize, and dividing by a zero pageSize panics
ListResponse(page, pageSize, r) ==
  IF pageSize = 0
    THEN [err |-> "panic: integer divide by zero", data |-> <<>>, meta |-> NoMeta]
    ELSE [err |-> "ok",
          data |-> formatJSONapiData(r.result),
          meta |-> [total |-> r.total, page |-> page, page_size |-> pageSize,
                    total_pages |-> GoDiv(r.total + pageSize - 1, pageSize)]]

HandlerListOf(t, page, pageSize) == ListResponse(page, pageSize, List(t, page, pageSize))

\* JSONAPIHandler.List
HandlerList(t, qNumber, qSize) ==
  HandlerListOf(t, Atoi(Query(qNumber, <<"1">>)), Atoi(Query(qSize, <<"1", "0">>)))

(***************************************************************************)
(* spec.LoadManifest and main.                                             *)
(***************************************************************************)
NoManifest == [EntitiesNil |-> TRUE, Entities |-> {}]

\* yaml decoding of the entities section into map[string]EntityDef: an
\* absent or null section leaves the map nil, a mapping makes it non-nil
Decode(d) ==
  [EntitiesNil |-> d.entities.kind \in {"absent", "null"},
   Entities |-> IF d.entities.kind = "map" THEN d.entities.names ELSE {}]

LoadManifest(d) ==
  IF d.file = "missing" THEN [err |-> "open", manifest |-> NoManifest]
  ELSE IF d.file \in {"empty", "malformed"} THEN [err |-> "decode", manifest |-> NoManifest]
  ELSE IF Decode(d).EntitiesNil
    THEN [err |-> "manifest must have at least one entity", manifest |-> NoManifest]
  ELSE [err |-> "ok", manifest |-> Decode(d)]

(***************************************************************************)
(* Inputs: manifest documents, callers' payloads, ids and query strings.   *)
(***************************************************************************)
Ids == 1..(MaxId + 1)

EntitySections ==
  {[kind |-> "absent", names |-> {}], [kind |-> "null", names |-> {}]}
  \cup {[kind |-> "map", names |-> S] : S \in {S \in SUBSET EntityNames : Cardinality(S) <= 1}}

Docs ==
  {[file |-> f, entities |-> [kind |-> "absent", names |-> {}]] :
     f \in {"missing", "empty", "malformed"}}
  \cup {[file |-> "ok", entities |-> sec] : sec \in EntitySections}

\* the values a caller tries for a field of the given type
ValuesFor(type) ==
  CASE type = "string" -> {NULL, TextV(TBlank), TextV(TX)}
    [] type = "enum"   -> {TextV(TOpen), TextV(TDone), TextV(TX)}
    [] type = "int"    -> {NULL, IntV(7), TextV(TSeven)}
    [] type = "double" -> {NULL, RealV(15), TextV(TOneFive), IntV(7)}
    [] type = "bool"   -> {NULL, BoolV(TRUE), TextV(TSeven), TextV(TBlank)}

AllValues == UNION {ValuesFor(ty) : ty \in {"string", "enum", "int", "double", "bool"}}

\* every record over a subset of the declared fields and one undeclared key
PayloadsFor(def) ==
  UNION { {d \in [K -> AllValues] :
             \A k \in K : d[k] \in (IF k \in DOMAIN def THEN ValuesFor(def[k].Type)
                                    ELSE {TextV(TX)})} :
          K \in SUBSET ((DOMAIN def) \cup {"bogus"}) }

Payloads == [n \in EntityNames |-> PayloadsFor(EntityDefs[n])]

Entities == [n \in EntityNames |-> RegisterEntity(n)]

\* values of the page[number] and page[size] query parameters; <<>> is absent
NumberValues == {<<>>, <<"0">>, <<"2">>}
SizeValues == {<<>>, <<"0">>, <<"1">>, <<"-", "1">>, TX}

(***************************************************************************)
(* State.                                                                  *)
(*   doc       the manifest document on disk                               *)
(*   phase     where main is: boot, loaded, serving, fatal                 *)
(*   manifest  the decoded spec.Manifest                                   *)
(*   tables    entity name -> its SQLite table                             *)
(*   cl        the Update or Delete call each client is in the middle of   *)
(*   ret       what the call that just returned was given and returned     *)
(***************************************************************************)
Idle == [pc |-> "idle", entity |-> "", id |-> 0, data |-> EmptyMap]

NoRet ==
  [op |-> "", entity |-> "", id |-> 0, data |-> EmptyMap, err |-> "", errs |-> {},
   rec |-> EmptyMap, body |-> <<>>, meta |-> NoMeta, qNumber |-> <<>>, qSize |-> <<>>]

Init ==
  /\ doc \in Docs
  /\ phase = "boot"
  /\ manifest = NoManifest
  /\ tables = [n \in {} |-> 0]
  /\ cl = [c \in {} |-> Idle]
  /\ ret = NoRet

LoadReturns(r) ==
  /\ phase' = IF r.err = "ok" THEN "loaded" ELSE "fatal"
  /\ manifest' = r.manifest
  /\ ret' = [NoRet EXCEPT !.op = "LoadManifest", !.err = r.err]

\* main, lines 172-175: load the manifest or log.Fatalf
MainLoad ==
  /\ phase = "boot"
  /\ LoadReturns(LoadManifest(doc))
  /\ UNCHANGED <<doc, tables, cl>>

\* main, lines 177-204: register every entity, create its schema, serve
MainServe ==
  /\ phase = "loaded"
  /\ tables' = [n \in manifest.Entities |-> NewTable(Entities[n])]
  /\ phase' = "serving"
  /\ ret' = [NoRet EXCEPT !.op = "Start"]
  /\ UNCHANGED <<doc, manifest, cl>>

CreateReturns(n, data, r) ==
  /\ tables' = [tables EXCEPT ![n] = r.t]
  /\ ret' = [NoRet EXCEPT !.op = "Create", !.entity = n, !.data = data,
                          !.err = r.err, !.errs = r.errs, !.id = r.id]

CallCreate(n, data) ==
  /\ phase = "serving"
  /\ tables[n].seq < MaxId
  /\ CreateReturns(n, data, Create(Entities[n], tables[n], data))
  /\ UNCHANGED <<doc, phase, manifest, cl>>

FindByIDReturns(n, id, r) ==
  ret' = [NoRet EXCEPT !.op = "FindByID", !.entity = n, !.id = id,
                       !.err = r.err, !.rec = r.rec]

CallFindByID(n, id) ==
  /\ phase = "serving"
  /\ FindByIDReturns(n, id, FindByID(tables[n], id))
  /\ UNCHANGED <<doc, phase, manifest, tables, cl>>

UpdateReturns(n, id, data, r) ==
  /\ tables' = [tables EXCEPT ![n] = r.t]
  /\ ret' = [NoRet EXCEPT !.op = "Update", !.entity = n, !.id = id, !.data = data,
                          !.err = r.err, !.errs = r.errs]

CallUpdate(n, id, data) ==
  /\ phase = "serving"
  /\ UpdateReturns(n, id, data, Update(Entities[n], tables[n], id, data))
  /\ UNCHANGED <<doc, phase, manifest, cl>>

DeleteReturns(n, id, r) ==
  /\ tables' = [tables EXCEPT ![n] = r.t]
  /\ ret' = [NoRet EXCEPT !.op = "Delete", !.entity = n, !.id = id, !.err = r.err]

CallDelete(n, id) ==
  /\ phase = "serving"
  /\ DeleteReturns(n, id, Delete(tables[n], id))
  /\ UNCHANGED <<doc, phase, manifest, cl>>

ListReturns(n, qNumber, qSize, r) ==
  ret' = [NoRet EXCEPT !.op = "List", !.entity = n, !.err = r.err,
                       !.body = r.data, !.meta = r.meta,
                       !.qNumber = qNumber, !.qSize = qSize]

\* GET /<entity>/?page[number]=..&page[size]=..
GetList(n, qNumber, qSize) ==
  /\ phase = "serving"
  /\ ListReturns(n, qNumber, qSize, HandlerList(tables[n], qNumber, qSize))
  /\ UNCHANGED <<doc, phase, manifest, tables, cl>>

GetReturns(n, id, r) ==
  ret' = [NoRet EXCEPT !.op = "Get", !.entity = n, !.id = id, !.err = r.err,
                       !.rec = r.rec,
                       !.body = IF r.err = "ok" THEN <<formatJSONapiResource(r.rec)>>
                                ELSE <<>>]

\* GET /<entity>/:id (JSONAPIHandler.Get)
GetOne(n, id) ==
  /\ phase = "serving"
  /\ GetReturns(n, id, FindByID(tables[n], id))
  /\ UNCHANGED <<doc, phase, manifest, tables, cl>>

\* one caller at a time: every repository call runs to completion
Next ==
  \/ MainLoad
  \/ MainServe
  \/ \E n \in DOMAIN tables : \E data \in Payloads[n] : CallCreate(n, data)
  \/ \E n \in DOMAIN tables, id \in Ids : CallFindByID(n, id)
  \/ \E n \in DOMAIN tables, id \in Ids : \E data \in Payloads[n] : CallUpdate(n, id, data)
  \/ \E n \in DOMAIN tables, id \in Ids : CallDelete(n, id)
  \/ \E n \in DOMAIN tables, qNumber \in NumberValues, qSize \in SizeValues :
       GetList(n, qNumber, qSize)
  \/ \E n \in DOMAIN tables, id \in Ids : GetOne(n, id)

Spec == Init /\ [][Next]_vars

(***************************************************************************)
(* Concurrent callers.  Update and Delete issue several statements; each   *)
(* statement is atomic in the storage engine, a call is not: between its   *)
(* statements other callers' statements may run.                           *)
(***************************************************************************)
Clients == {"a", "b"}

\* the patches concurrent Updates carry
Patches == [n \in EntityNames |-> {d \in Payloads[n] : Cardinality(DOMAIN d) <= MaxPatchKeys}]

InitConc ==
  \E n \in EntityNames :
    /\ doc = [file |-> "ok", entities |-> [kind |-> "map", names |-> {n}]]
    /\ phase = "serving"
    /\ manifest = Decode(doc)
    /\ tables = [m \in {n} |-> NewTable(Entities[m])]
    /\ cl = [c \in Clients |-> Idle]
    /\ ret = NoRet

Returned(op, n, id, err) == [NoRet EXCEPT !.op = op, !.entity = n, !.id = id, !.err = err]

ConcCreateReturns(n, r) ==
  /\ tables' = [tables EXCEPT ![n] = r.t]
  /\ ret' = Returned("Create", n, r.id, r.err)

ConcCreate(n, data) ==
  /\ tables[n].seq < MaxId
  /\ ConcCreateReturns(n, Create(Entities[n], tables[n], data))
  /\ UNCHANGED <<doc, phase, manifest, cl>>

\* the existence check of op returned r: the call returns r's error, or
\* goes on to its next statement
Checked(c, op, n, id, data, r) ==
  IF r.err # "ok"
    THEN /\ ret' = Returned(op, n, id, r.err)
         /\ cl' = cl
    ELSE /\ ret' = NoRet
         /\ cl' = [cl EXCEPT ![c] = [pc |-> IF op = "Update" THEN "update_checked"
                                            ELSE "delete_checked",
                                     entity |-> n, id |-> id, data |-> data]]

\* Update, lines 221-225: the existence check
UpdateCheck(c, n, id, data) ==
  /\ cl[c].pc = "idle"
  /\ Checked(c, "Update", n, id, data, FindByID(tables[n], id))
  /\ UNCHANGED <<doc, phase, manifest, tables>>

UpdateValidated(c, n, r, errs) ==
  IF r.err # "ok"
    THEN /\ ret' = Returned("Update", n, cl[c].id, r.err)
         /\ cl' = [cl EXCEPT ![c] = Idle]
  ELSE IF errs # {}
    THEN /\ ret' = Returned("Update", n, cl[c].id, "validation failed")
         /\ cl' = [cl EXCEPT ![c] = Idle]
  ELSE /\ ret' = NoRet
       /\ cl' = [cl EXCEPT ![c].pc = "update_validated"]

\* Update, lines 227-246: read the existing record, validate the merged view
UpdateValidate(c) ==
  /\ cl[c].pc = "update_checked"
  /\ UpdateValidated(c, cl[c].entity, FindByID(tables[cl[c].entity], cl[c].id),
                     Validate(Entities[cl[c].entity],
                              Merged(FindByID(tables[cl[c].entity], cl[c].id).rec,
                                     cl[c].data)))
  /\ UNCHANGED <<doc, phase, manifest, tables>>

UpdateWritten(c, n, r) ==
  /\ tables' = [tables EXCEPT ![n] = r.t]
  /\ ret' = Returned("Update", n, cl[c].id, r.err)

\* Update, lines 248-270: the partial write
UpdateWrite(c) ==
  /\ cl[c].pc = "update_validated"
  /\ UpdateWritten(c, cl[c].entity,
                   UpdateExec(Entities[cl[c].entity], tables[cl[c].entity],
                              cl[c].id, cl[c].data))
  /\ cl' = [cl EXCEPT ![c] = Idle]
  /\ UNCHANGED <<doc, phase, manifest>>

\* Delete, lines 275-279: the existence check
DeleteCheck(c, n, id) ==
  /\ cl[c].pc = "idle"
  /\ Checked(c, "Delete", n, id, EmptyMap, FindByID(tables[n], id))
  /\ UNCHANGED <<doc, phase, manifest, tables>>

\* Delete, lines 281-283: the DELETE statement
DeleteWrite(c) ==
  /\ cl[c].pc = "delete_checked"
  /\ tables' = [tables EXCEPT ![cl[c].entity] = SqlDelete(@, cl[c].id)]
  /\ ret' = Returned("Delete", cl[c].entity, cl[c].id, "ok")
  /\ cl' = [cl EXCEPT ![c] = Idle]
  /\ UNCHANGED <<doc, phase, manifest>>

NextConc ==
  \/ \E n \in DOMAIN tables : \E data \in Payloads[n] : ConcCreate(n, data)
  \/ \E c \in Clients, n \in DOMAIN tables, id \in Ids : \E data \in Patches[n] :
       UpdateCheck(c, n, id, data)
  \/ \E c \in Clients : UpdateValidate(c)
  \/ \E c \in Clients : UpdateWrite(c)
  \/ \E c \in Clients, n \in DOMAIN tables, id \in Ids : DeleteCheck(c, n, id)
  \/ \E c \in Clients : DeleteWrite(c)

SpecConc == InitConc /\ [][NextConc]_vars

(***************************************************************************)
(* Entity.Validate as a function: every record over the declared fields    *)
(* and one undeclared key, with values of every kind.                      *)
(***************************************************************************)
TUpperOpen == <<"O", "p", "e", "n">>
TMinusSeven == <<"-", "7">>

WideValues ==
  {NULL, TextV(<<>>), TextV(TBlank), TextV(TX), TextV(TOpen), TextV(TDone),
   TextV(TUpperOpen), TextV(TSeven), TextV(TMinusSeven), TextV(TOneFive),
   IntV(7), RealV(15), BoolV(TRUE)}

Records ==
  [n \in EntityNames |->
     UNION { [K -> WideValues] : K \in SUBSET ((DOMAIN EntityDefs[n]) \cup {"bogus"}) }]

InitValidate ==
  /\ doc = [file |-> "ok", entities |-> [kind |-> "absent", names |-> {}]]
  /\ phase = "validate"
  /\ manifest = NoManifest
  /\ tables = [n \in {} |-> 0]
  /\ cl = [c \in {} |-> Idle]
  /\ \E n \in EntityNames : \E data \in Records[n] :
       ret = [NoRet EXCEPT !.op = "record", !.entity = n, !.data = data]

CallValidate ==
  /\ ret.op = "record"
  /\ ret' = [ret EXCEPT !.op = "Validate", !.errs = Validate(Entities[ret.entity], ret.data)]
  /\ UNCHANGED <<doc, phase, manifest, tables, cl>>

NextValidate == CallValidate

SpecValidate == InitValidate /\ [][NextValidate]_vars

(***************************************************************************)
(* What the specification says of a field value (sections 4.1 and 4.2).    *)
(***************************************************************************)
ValueOf(data, f) == IF f \in DOMAIN data THEN data[f] ELSE NULL

\* null, absent, or text that is empty or only whitespace
IsBlank(v) == v.k = "null" \/ (v.k = "text" /\ \A i \in 1..Len(v.s) : IsSpace(v.s[i]))

\* a non-null value the field's type does not accept
TypeRejects(field, v) ==
  /\ v.k # "null"
  /\ CASE field.Type = "string" -> v.k # "text"
       [] field.Type = "int"    -> ~(v.k = "int" \/ (v.k = "text" /\ ParseInt(v.s).ok))
       [] field.Type = "double" -> ~(v.k = "real" \/ (v.k = "text" /\ ParseFloat(v.s).ok))
       [] field.Type = "enum"   -> ~(v.k = "text" /\ v.s \in {field.Variants[i] :
                                                              i \in 1..Len(field.Variants)})
       [] OTHER -> FALSE

TypeErrorKinds ==
  {"must be a string", "must be a number", "must be an integer",
   "must be a string for enum type", "must be one of"}

\* C6: Validate reports every unknown key, the required error of every
\* required field that is absent, null or blank, and the type error of every
\* field whose value its type rejects - whatever the other fields hold - and
\* reports nothing else: a record with only declared keys and passing
\* validators yields no error.
C6_ValidateComplete ==
  ret.op = "Validate" =>
    LET def == EntityDefs[ret.entity]
        data == ret.data
        errs == ret.errs
        unknown == (DOMAIN data) \ (DOMAIN def)
        missing == {f \in DOMAIN def : def[f].Required /\ IsBlank(ValueOf(data, f))}
        rejected == {f \in DOMAIN def : TypeRejects(def[f], ValueOf(data, f))}
    IN /\ \A k \in unknown : Err("unknown field", k) \in errs
       /\ \A f \in missing : Err("required", f) \in errs
       /\ \A f \in rejected : \E er \in errs : er.field = f /\ er.kind \in TypeErrorKinds
       /\ Cardinality(errs) = Cardinality(unknown) + Cardinality(missing) + Cardinality(rejected)
       /\ (unknown = {} /\ missing = {} /\ rejected = {}) => errs = {}

\* an unknown key, a missing required field and a badly typed field at once
C6_Witness ==
  /\ ret.op = "Validate"
  /\ ret.entity = "task"
  /\ Err("unknown field", "bogus") \in ret.errs
  /\ Err("required", "title") \in ret.errs
  /\ Err("must be one of", "status") \in ret.errs

(***************************************************************************)
(* Claims about the repository, one caller at a time (Spec).               *)
(***************************************************************************)
\* C1: for an existing row and a patch whose merged view passes validation
\* (a patch with no fields included), Update succeeds and FindByID then
\* shows every patched field with the patch's value and every other field
\* as it was.
C1_UpdateShowsPatch ==
  [][ LET n == ret'.entity
          id == ret'.id
          data == ret'.data
          before == FindByID(tables[n], id)
          after == FindByID(tables'[n], id)
      IN (/\ ret'.op = "Update"
          /\ before.err = "ok"
          /\ Validate(Entities[n], Merged(before.rec, data)) = {})
         => /\ ret'.err = "ok"
            /\ after.err = "ok"
            /\ \A c \in DOMAIN after.rec :
                 after.rec[c] = IF c \in DOMAIN data THEN data[c] ELSE before.rec[c] ]_vars

\* C2: a Create whose data fails validation, and an Update of an existing
\* row whose merged view fails validation, return the validation error with
\* its errors and leave every table as it was.
C2_ValidationBeforeWrite ==
  [][ LET n == ret'.entity
          before == FindByID(tables[n], ret'.id)
          invalid ==
            \/ ret'.op = "Create" /\ Validate(Entities[n], ret'.data) # {}
            \/ /\ ret'.op = "Update"
               /\ before.err = "ok"
               /\ Validate(Entities[n], Merged(before.rec, ret'.data)) # {}
      IN invalid => /\ ret'.err = "validation failed"
                    /\ ret'.errs # {}
                    /\ tables' = tables ]_vars

\* an Update of an existing row was refused by validation
C2_Witness ==
  /\ ret.op = "Update"
  /\ ret.err = "validation failed"
  /\ ret.id \in DOMAIN tables[ret.entity].rows

\* C3: a Create of data that passes validation succeeds, and FindByID of
\* the returned id yields that id and, for every field of data, data's value.
C3_CreateRoundTrip ==
  (ret.op = "Create" /\ Validate(Entities[ret.entity], ret.data) = {})
  => /\ ret.err = "ok"
     /\ LET r == FindByID(tables[ret.entity], ret.id)
        IN /\ r.err = "ok"
           /\ r.rec["id"] = IntV(ret.id)
           /\ \A f \in DOMAIN ret.data : r.rec[f] = ret.data[f]

\* C4: FindByID, Update and Delete of an id that has no row fail with not
\* found and leave every table as it was.
C4_NotFoundNoWrite ==
  [][ (/\ ret'.op \in {"FindByID", "Update", "Delete"}
       /\ ret'.id \notin DOMAIN tables[ret'.entity].rows)
      => (ret'.err = "not found" /\ tables' = tables) ]_vars

\* an Update of an absent id was refused while another row exists
C4_Witness ==
  /\ ret.op = "Update"
  /\ ret.err = "not found"
  /\ ret.id \notin DOMAIN tables[ret.entity].rows
  /\ DOMAIN tables[ret.entity].rows # {}

\* C5: after a successful Delete of an existing row, FindByID of that id
\* fails with not found and every other row is as it was.
C5_DeleteRemovesOnlyThatRow ==
  [][ LET n == ret'.entity
          id == ret'.id
      IN (ret'.op = "Delete" /\ ret'.err = "ok")
         => /\ id \in DOMAIN tables[n].rows
            /\ FindByID(tables'[n], id).err = "not found"
            /\ DOMAIN tables'[n].rows = (DOMAIN tables[n].rows) \ {id}
            /\ \A i \in DOMAIN tables'[n].rows : tables'[n].rows[i] = tables[n].rows[i] ]_vars

\* a Delete succeeded and another row is still there
C5_Witness ==
  /\ ret.op = "Delete"
  /\ ret.err = "ok"
  /\ DOMAIN tables[ret.entity].rows # {}

\* C7: a list request answers with the rows at offset (page-1)*pageSize, at
\* most pageSize of them, the full row count, and total_pages =
\* ceil(total / pageSize), where a page <= 0 counts as 1 and a pageSize <= 0
\* counts as 10.
C7_ListPagination ==
  ret.op = "List" =>
    LET page == Atoi(Query(ret.qNumber, <<"1">>))
        pageSize == Atoi(Query(ret.qSize, <<"1", "0">>))
        P == IF page <= 0 THEN 1 ELSE page
        S == IF pageSize <= 0 THEN 10 ELSE pageSize
        ids == SortedIds(DOMAIN tables[ret.entity].rows)
        total == Len(ids)
        offset == (P - 1) * S
        rest == IF total > offset THEN total - offset ELSE 0
        count == IF rest > S THEN S ELSE rest
    IN /\ ret.err = "ok"
       /\ Len(ret.body) = count
       /\ \A i \in 1..Len(ret.body) : ret.body[i].id = FormatInt(ids[offset + i])
       /\ ret.meta.total = total
       /\ ret.meta.total_pages = (total + S - 1) \div S

\* C8: the envelope of a record carries the record's id as decimal text,
\* the record's other fields as attributes, and the name of the record's
\* entity as its type.
C8_EnvelopeTypeIsEntityName ==
  (ret.op \in {"Get", "List"} /\ ret.err = "ok")
  => /\ \A i \in 1..Len(ret.body) : ret.body[i].type = ret.entity
     /\ ret.op = "Get" =>
          /\ ret.body[1].id = FormatInt(ret.id)
          /\ ret.body[1].attributes = [k \in (DOMAIN ret.rec) \ {"id"} |-> ret.rec[k]]

\* C9: main gets past LoadManifest only with a manifest that holds at least
\* one entity.
C9_ManifestHasEntity ==
  phase \in {"loaded", "serving"}
  => /\ doc.file = "ok"
     /\ doc.entities.kind = "map"
     /\ doc.entities.names # {}

(***************************************************************************)
(* Claims about concurrent callers (SpecConc).                             *)
(***************************************************************************)
\* C10: whatever Creates, Updates and Deletes ran, in whatever interleaving
\* of their statements, every stored row read back in full has every
\* required field non-null and non-blank and every field value accepted by
\* its type.
C10_StoredRowsValid ==
  \A n \in DOMAIN tables : \A id \in DOMAIN tables[n].rows :
    LET rec == ScanRow(tables[n], id)
    IN \A f \in DOMAIN EntityDefs[n] :
         /\ EntityDefs[n][f].Required => ~IsBlank(rec[f])
         /\ ~TypeRejects(EntityDefs[n][f], rec[f])

\* an Update wrote a row while another Update of the same row, already
\* validated, has its write still to come
C10_Witness ==
  /\ ret.op = "Update"
  /\ ret.err = "ok"
  /\ ret.id \in DOMAIN tables[ret.entity].rows
  /\ \E c \in Clients : cl[c].pc = "update_validated" /\ cl[c].id = ret.id

\* C12: a successful Create returns an id larger than every id the table
\* has issued before (the AUTOINCREMENT sequence), the sequence never goes
\* back, Deletes included, and a row only ever appears under such a fresh
\* id: no id is reused, and the id of a deleted row stays without a row
\* after any later Create.
C12_IdsNeverReused ==
  [][ \A n \in (DOMAIN tables) \cap (DOMAIN tables') :
        /\ tables'[n].seq >= tables[n].seq
        /\ \A i \in DOMAIN tables[n].rows : i <= tables[n].seq
        /\ \A i \in (DOMAIN tables'[n].rows) \ (DOMAIN tables[n].rows) : i > tables[n].seq
        /\ (ret'.op = "Create" /\ ret'.err = "ok" /\ ret'.entity = n)
           => /\ ret'.id > tables[n].seq
              /\ tables'[n].seq = ret'.id
              /\ FindByID(tables'[n], ret'.id).err = "ok" ]_vars

\* a Create has returned id 2 after the row of id 1 was deleted, and id 1
\* is still without a row
C12_Witness ==
  /\ ret.op = "Create"
  /\ ret.err = "ok"
  /\ ret.id = 2
  /\ FindByID(tables[ret.entity], 1).err = "not found"

\* C11: the existence check and the write of Update and of Delete are not
\* atomic as a pair: when the row a call found at its check is gone by the
\* time of its write (a concurrent Delete removed it), the Update of a
\* non-empty patch and the Delete still return success, and the write
\* changes no table, so no row holds the patch afterwards.
C11_CheckThenWriteRace ==
  [][ \A c \in Clients :
        /\ (/\ cl[c].pc = "update_validated"
            /\ cl'[c].pc = "idle"
            /\ cl[c].id \notin DOMAIN tables[cl[c].entity].rows
            /\ DOMAIN cl[c].data # {})
           => /\ ret' = Returned("Update", cl[c].entity, cl[c].id, "ok")
              /\ tables' = tables
        /\ (/\ cl[c].pc = "delete_checked"
            /\ cl'[c].pc = "idle"
            /\ cl[c].id \notin DOMAIN tables[cl[c].entity].rows)
           => /\ ret' = Returned("Delete", cl[c].entity, cl[c].id, "ok")
              /\ tables' = tables ]_vars

\* an Update that passed its existence check has returned success for a
\* row that a concurrent Delete removed in between
C11_Witness ==
  /\ ret.op = "Update"
  /\ ret.err = "ok"
  /\ ret.id \notin DOMAIN tables[ret.entity].rows
  /\ ret.id <= tables[ret.entity].seq

====
